---- MODULE Spec2Model ----
(***************************************************************************)
(* The GPT-2 byte-pair-encoding tokenizer of Targets/GPT2/BPE.hpp and the  *)
(* part of Targets/GPT2/main.cpp that drives it.                           *)
(*                                                                         *)
(* A std::string is a sequence of bytes (0..255), a std::wstring a         *)
(* sequence of code points (wchar_t, 32 bits wide on the targets of the    *)
(* repository).  Sequences are 1-based here; the source's 0-based index i  *)
(* is i + 1 in the model, and its "-1 / npos / cap" sentinels are the      *)
(* positions just outside 1..Len.                                          *)
(***************************************************************************)
EXTENDS Integers, Sequences, FiniteSets, TLC

\* ------------------------------------------------------------------------
\* Bounds of the model (not program constants).
\* ------------------------------------------------------------------------

\* Longest text handed to encode, in characters of Alphabet.
MaxTextLen == 3

\* Longest id sequence a client hands to decode directly.
MaxIds == 2

\* Most passes of encode's marker-splitting loop the model follows in one call
\* (more than a text of MaxTextLen characters has occurrences of a marker).
MaxSplits == 4

\* Longest prompt of main(), in characters of Alphabet.
MaxPromptLen == 1

\* Most tokens the generation loop of main() produces in the model.
MaxGen == 2

\* Most rule lines of a merge-rules file of RuleFiles.
MaxRules == 3

\* Longest match handed to bpe by the calls of MergerSpec, in characters.
MaxWordLen == 4

\* ------------------------------------------------------------------------
\* Sequence helpers.
\* ------------------------------------------------------------------------

Min(S) == CHOOSE x \in S : \A y \in S : x <= y

Max(S) == CHOOSE x \in S : \A y \in S : x >= y

RECURSIVE Flatten(_)
Flatten(ss) == IF ss = <<>> THEN <<>> ELSE Head(ss) \o Flatten(Tail(ss))

Range(f) == {f[x] : x \in DOMAIN f}

\* All sequences over the sequence-valued units in S made of at most n units.
RECURSIVE UnitSeqs(_, _)
UnitSeqs(S, n) ==
    IF n = 0 THEN {<<>>}
    ELSE LET shorter == UnitSeqs(S, n - 1)
         IN  shorter \cup {u \o t : u \in S, t \in shorter}

\* std::unordered_map::insert: the element is inserted only if the key is not
\* in the map yet.
MapInsert(m, k, v) == IF k \in DOMAIN m THEN m ELSE m @@ (k :> v)

EmptyMap == <<>>

\* e, with v evaluated first.  The model checker evaluates the arguments of an
\* operator on demand; a loop that hands its state on as an argument uses
\* Eager to evaluate the state at each step instead of at the end.
Eager(v, e) == IF v = v THEN e ELSE e

\* ------------------------------------------------------------------------
\* UTF-8 conversions.
\* ------------------------------------------------------------------------

\* str[k] as utf8ToWString reads it (k is 1-based).  std::string::operator[]
\* yields the terminating '\0' at size(); a read further out is outside the
\* string, and what it yields is the caller-chosen byte oob.
CharAt(str, k, oob) ==
    IF k <= Len(str) THEN str[k]
    ELSE IF k = Len(str) + 1 THEN 0
    ELSE oob

\* utf8Loop with a slip: after a two-byte sequence the index moves on by one.
RECURSIVE utf8LoopShortStep(_, _, _, _)
utf8LoopShortStep(str, i, wstr, oob) ==
    IF i > Len(str) THEN [thrown |-> "none", wstr |-> wstr]
    ELSE LET ch == str[i]
             c1 == CharAt(str, i + 1, oob) % 64
             c2 == CharAt(str, i + 2, oob) % 64
             c3 == CharAt(str, i + 3, oob) % 64
         IN  IF ch <= 127 THEN
                 utf8LoopShortStep(str, i + 1, Append(wstr, ch), oob)
             ELSE IF ch <= 223 THEN
                 utf8LoopShortStep(str, i + 1, Append(wstr, (ch % 32) * 64 + c1), oob)
             ELSE IF ch <= 239 THEN
                 utf8LoopShortStep(str, i + 3,
                                   Append(wstr, (ch % 16) * 4096 + c1 * 64 + c2), oob)
             ELSE IF ch <= 247 THEN
                 utf8LoopShortStep(str, i + 4,
                                   Append(wstr, (ch % 8) * 262144 + c1 * 4096 + c2 * 64 + c3),
                                   oob)
             ELSE [thrown |-> "runtime_error", wstr |-> <<>>]

RECURSIVE utf8Loop(_, _, _, _)
utf8Loop(str, i, wstr, oob) ==
    IF i > Len(str) THEN [thrown |-> "none", wstr |-> wstr]
    ELSE LET ch == str[i]
             c1 == CharAt(str, i + 1, oob) % 64
             c2 == CharAt(str, i + 2, oob) % 64
             c3 == CharAt(str, i + 3, oob) % 64
         IN  IF ch <= 127 THEN
                 utf8Loop(str, i + 1, Append(wstr, ch), oob)
             ELSE IF ch <= 223 THEN
                 utf8Loop(str, i + 2, Append(wstr, (ch % 32) * 64 + c1), oob)
             ELSE IF ch <= 239 THEN
                 utf8Loop(str, i + 3,
                          Append(wstr, (ch % 16) * 4096 + c1 * 64 + c2), oob)
             ELSE IF ch <= 247 THEN
                 utf8Loop(str, i + 4,
                          Append(wstr, (ch % 8) * 262144 + c1 * 4096 + c2 * 64 + c3),
                          oob)
             ELSE [thrown |-> "runtime_error", wstr |-> <<>>]

\* utf8ToWString: [thrown, wstr]; thrown is "none" or "runtime_error".
utf8ToWString(str, oob) == utf8Loop(str, 1, <<>>, oob)

\* The bytes wstringToUTF8 appends for one code point; none above 0x10ffff.
utf8OfCodepoint(wc) ==
    IF wc <= 127 THEN <<wc>>
    ELSE IF wc <= 2047 THEN <<192 + ((wc \div 64) % 32), 128 + (wc % 64)>>
    ELSE IF wc <= 65535 THEN
        <<224 + ((wc \div 4096) % 16), 128 + ((wc \div 64) % 64), 128 + (wc % 64)>>
    ELSE IF wc <= 1114111 THEN
        <<240 + ((wc \div 262144) % 8), 128 + ((wc \div 4096) % 64),
          128 + ((wc \div 64) % 64), 128 + (wc % 64)>>
    ELSE <<>>

RECURSIVE wstringToUTF8(_)
wstringToUTF8(wstr) ==
    IF wstr = <<>> THEN <<>>
    ELSE utf8OfCodepoint(Head(wstr)) \o wstringToUTF8(Tail(wstr))

\* ------------------------------------------------------------------------
\* bytesToUnicode: the byte <-> code point tables.
\* ------------------------------------------------------------------------

\* The body of the lambda insertRange: m_b2u.insert({uint8_t(c), wchar_t(c)}).
insertChar(m, c) == MapInsert(m, c % 256, c)

\* The lambda insertRange: its body for c = start, start + 1, ..., end.  (The
\* range is walked in halves, in ascending order, to keep the evaluation
\* shallow.)
RECURSIVE insertRange(_, _, _)
insertRange(m, start, end) ==
    IF start > end THEN m
    ELSE IF start = end THEN insertChar(m, start)
    ELSE LET mid == (start + end) \div 2
             half == insertRange(m, start, mid)
         IN  Eager(half, insertRange(half, mid + 1, end))

\* The three printable ranges: '!'..'~', 0xA1..0xAC, 0xAE..0xFF.
printableRanges == <<<<33, 126>>, <<161, 172>>, <<174, 255>>>>

\* fillByte with a slip: n is not incremented.
fillByteNoCount(st, b) ==
    IF b \in DOMAIN st.m THEN st
    ELSE [m |-> MapInsert(st.m, b, 256 + st.n), n |-> st.n]

\* The body of the second loop for byte b, on the state [m, n]:
\*   if (!m_b2u.contains(b)) { m_b2u.insert({b, 256 + n}); n++; }
fillByte(st, b) ==
    IF b \in DOMAIN st.m THEN st
    ELSE [m |-> MapInsert(st.m, b, 256 + st.n), n |-> st.n + 1]

\* for (b = lo; b <= hi; b++) fillByte, walked in halves in ascending order.
RECURSIVE fillRest(_, _, _)
fillRest(st, lo, hi) ==
    IF lo > hi THEN st
    ELSE IF lo = hi THEN fillByte(st, lo)
    ELSE LET mid == (lo + hi) \div 2
             half == fillRest(st, lo, mid)
         IN  Eager(half, fillRest(half, mid + 1, hi))

\* m_b2u as bytesToUnicode leaves it.
b2uTable ==
    LET r == printableRanges
        m1 == insertRange(EmptyMap, r[1][1], r[1][2])
        m2 == insertRange(m1, r[2][1], r[2][2])
        m3 == insertRange(m2, r[3][1], r[3][2])
    IN  fillRest([m |-> m3, n |-> 0], 0, 255).m

\* for (auto e : m_b2u) m_u2b.insert({e.second, e.first}).  The iteration order
\* of an unordered_map is unspecified; it matters only if two bytes shared a
\* code point.  The model visits the bytes lo..hi in ascending order.
RECURSIVE invertFrom(_, _, _, _)
invertFrom(b2u, u2b, lo, hi) ==
    IF lo > hi THEN u2b
    ELSE IF lo = hi
    THEN (IF lo \in DOMAIN b2u THEN MapInsert(u2b, b2u[lo], lo) ELSE u2b)
    ELSE LET mid == (lo + hi) \div 2
             half == invertFrom(b2u, u2b, lo, mid)
         IN  Eager(half, invertFrom(b2u, half, mid + 1, hi))

\* m_u2b as bytesToUnicode leaves it.
u2bTable == invertFrom(b2uTable, EmptyMap, 0, 255)

\* ------------------------------------------------------------------------
\* Files and the two loaders.
\* ------------------------------------------------------------------------

\* A file on disk: state is "ok", "missing" or "unreadable"; lines are what
\* std::getline yields from it, one byte sequence per line.
File(state, lines) == [state |-> state, lines |-> lines]

\* What the getline loop sees: std::fstream does not throw when the open
\* fails, and getline on the failed stream is false at once.
linesRead(file) == IF file.state = "ok" THEN file.lines ELSE <<>>

\* line.find(' '): the 1-based position of the first space, 0 for npos.
findSpace(line) ==
    IF \E k \in 1..Len(line) : line[k] = 32
    THEN Min({k \in 1..Len(line) : line[k] = 32})
    ELSE 0

\* line.substr(0, d): with d = npos the whole line.
ruleLeft(line) ==
    LET d == findSpace(line)
    IN  IF d = 0 THEN line ELSE SubSeq(line, 1, d - 1)

\* line.substr(d + 1): with d = npos, d + 1 wraps to 0 and it is the whole line.
ruleRight(line) ==
    LET d == findSpace(line)
    IN  IF d = 0 THEN line ELSE SubSeq(line, d + 1, Len(line))

\* ruleRank without the offset of the version line: the line counter itself.
ruleRankOfCounter(n) == n

\* The rank loadMergeRules gives the rule read when the line counter, already
\* incremented by n++, is n: n - 1.
ruleRank(n) == n - 1

\* loadMergeRules from line number k (1-based) on: [thrown, ranks].
RECURSIVE mergeRulesFrom(_, _, _, _)
mergeRulesFrom(lines, k, ranks, oob) ==
    IF k > Len(lines) THEN [thrown |-> "none", ranks |-> ranks]
    ELSE IF k = 1 THEN mergeRulesFrom(lines, k + 1, ranks, oob)
    ELSE LET l == utf8ToWString(ruleLeft(lines[k]), oob)
             r == utf8ToWString(ruleRight(lines[k]), oob)
         IN  IF l.thrown # "none" \/ r.thrown # "none"
             THEN [thrown |-> "runtime_error", ranks |-> ranks]
             ELSE mergeRulesFrom(lines, k + 1,
                                 MapInsert(ranks, <<l.wstr, r.wstr>>, ruleRank(k)),
                                 oob)

loadMergeRules(file, oob) == mergeRulesFrom(linesRead(file), 1, EmptyMap, oob)

isSpace(c) == c \in {32, 9, 10, 11, 12, 13}

isDigit(c) == c \in 48..57

isLetter(c) == c \in 65..90 \/ c \in 97..122

\* The value of the digit run of line that starts at position p, given the
\* value acc of the digits before it.
RECURSIVE digitsValue(_, _, _)
digitsValue(line, p, acc) ==
    IF p > Len(line) \/ ~isDigit(line[p]) THEN acc
    ELSE digitsValue(line, p + 1, acc * 10 + (line[p] - 48))

\* std::stoi(line): leading white space, an optional sign, then decimal
\* digits; what follows the digits is ignored.  [thrown, value].
stoi(line) ==
    LET nonSpace == {k \in 1..Len(line) : ~isSpace(line[k])}
        p == IF nonSpace = {} THEN Len(line) + 1 ELSE Min(nonSpace)
        signed == p <= Len(line) /\ line[p] \in {43, 45}
        q == IF signed THEN p + 1 ELSE p
        mag == digitsValue(line, q, 0)
        v == IF signed /\ line[p] = 45 THEN -mag ELSE mag
    IN  IF q > Len(line) \/ ~isDigit(line[q])
        THEN [thrown |-> "invalid_argument", value |-> 0]
        ELSE IF v > 2147483647 \/ v < -2147483647 - 1
        THEN [thrown |-> "out_of_range", value |-> 0]
        ELSE [thrown |-> "none", value |-> v]

\* vocabInsert with operator[] in place of insert: a later pair overwrites.
vocabInsertOverwrite(maps, token, id) ==
    [t2i |-> [k \in DOMAIN maps.t2i \cup {token} |->
                 IF k = token THEN id ELSE maps.t2i[k]],
     i2t |-> [k \in DOMAIN maps.i2t \cup {id} |->
                 IF k = id THEN token ELSE maps.i2t[k]]]

\* The two inserts loadVocab makes for one (token line, id line) pair.
vocabInsert(maps, token, id) ==
    [t2i |-> MapInsert(maps.t2i, token, id), i2t |-> MapInsert(maps.i2t, id, token)]

\* loadVocab from line number k (1-based; the source's n is k - 1) on, token
\* being the last token line read: [thrown, t2i, i2t].
RECURSIVE vocabFrom(_, _, _, _)
vocabFrom(lines, k, token, maps) ==
    IF k > Len(lines) THEN [thrown |-> "none", t2i |-> maps.t2i, i2t |-> maps.i2t]
    ELSE IF (k - 1) % 2 = 0 THEN vocabFrom(lines, k + 1, lines[k], maps)
    ELSE LET id == stoi(lines[k])
         IN  IF id.thrown # "none"
             THEN [thrown |-> id.thrown, t2i |-> maps.t2i, i2t |-> maps.i2t]
             ELSE vocabFrom(lines, k + 1, token, vocabInsert(maps, token, id.value))

loadVocab(file) ==
    vocabFrom(linesRead(file), 1, <<>>, [t2i |-> EmptyMap, i2t |-> EmptyMap])

\* ------------------------------------------------------------------------
\* State.
\* ------------------------------------------------------------------------

VARIABLES
    pc,             \* where the client program is
    mergesFile,     \* the merge-rules file on disk
    vocabsFile,     \* the vocabulary file on disk
    m_bpeRanks,     \* BPE::m_bpeRanks: pair of wstrings -> rank
    m_b2u,          \* BPE::m_b2u: byte -> code point
    m_u2b,          \* BPE::m_u2b: code point -> byte
    m_t2i,          \* BPE::m_t2i: token string -> id
    m_i2t,          \* BPE::m_i2t: id -> token string
    text,           \* encode's argument text
    eot,            \* encode's argument eot
    s,              \* encode's local s (0-based offset into text)
    i,              \* encode's local i (0-based offset, npos = -1)
    tokens,         \* encode's local tokens
    encOut,         \* what the last encode call returned or threw
    decIn,          \* decode's argument tokenIds
    decOut,         \* what the last decode call returned or threw
    inputTokenIds,  \* main's inputTokenIds
    printed         \* what main's generation loop has written to std::cout

tables == <<m_bpeRanks, m_b2u, m_u2b, m_t2i, m_i2t>>

\* ------------------------------------------------------------------------
\* The pretokenizer: std::regex_search with m_re over a wide string.
\*   ('s|'t|'re|'ve|'m|'ll|'d| ?[a-zA-Z]+| ?\d+| ?[^\s\w]+|\s+)
\* The regex is built in the "C" locale (main never sets another), in which
\* only ASCII characters are classified as space, digit or alphanumeric.
\* ------------------------------------------------------------------------

\* \w: alphanumeric or underscore.
isWord(c) == isLetter(c) \/ isDigit(c) \/ c = 95

\* The class of c among the bracket expressions of m_re: "letter" [a-zA-Z],
\* "digit" \d, "space" \s, "other" [^\s\w]; an underscore is in none of them.
charClass(c) ==
    IF isLetter(c) THEN "letter"
    ELSE IF isDigit(c) THEN "digit"
    ELSE IF isSpace(c) THEN "space"
    ELSE IF ~isWord(c) THEN "other"
    ELSE "none"

\* 's 't 're 've 'm 'll 'd, in the order of the alternation.
contractions ==
    <<<<39, 115>>, <<39, 116>>, <<39, 114, 101>>, <<39, 118, 101>>,
      <<39, 109>>, <<39, 108, 108>>, <<39, 100>>>>

\* Whether w holds lit at position p.
holdsAt(w, p, lit) ==
    /\ p + Len(lit) - 1 <= Len(w)
    /\ \A k \in 1..Len(lit) : w[p + k - 1] = lit[k]

\* The length of the longest run of characters of class cls starting at p.
RECURSIVE runLen(_, _, _)
runLen(w, p, cls) ==
    IF p > Len(w) \/ charClass(w[p]) # cls THEN 0
    ELSE 1 + runLen(w, p + 1, cls)

\* " ?X+" at p for the class X: the optional space is taken when a run of X
\* follows it, otherwise the run must start at p itself.  0: no match.
spaceRunLen(w, p, cls) ==
    IF w[p] = 32 /\ runLen(w, p + 1, cls) > 0 THEN 1 + runLen(w, p + 1, cls)
    ELSE runLen(w, p, cls)

\* The length of the match of m_re that starts at p; 0 if none starts there.
\* The first alternative that matches is the one taken.
matchLen(w, p) ==
    LET cs == {k \in 1..Len(contractions) : holdsAt(w, p, contractions[k])}
    IN  IF cs # {} THEN Len(contractions[Min(cs)])
        ELSE IF spaceRunLen(w, p, "letter") > 0 THEN spaceRunLen(w, p, "letter")
        ELSE IF spaceRunLen(w, p, "digit") > 0 THEN spaceRunLen(w, p, "digit")
        ELSE IF spaceRunLen(w, p, "other") > 0 THEN spaceRunLen(w, p, "other")
        ELSE runLen(w, p, "space")

\* The successive matches of regex_search from position p on: a position where
\* no alternative matches is passed over, and the search resumes at the end of
\* each match (match.suffix().first).
RECURSIVE regexMatches(_, _)
regexMatches(w, p) ==
    IF p > Len(w) THEN <<>>
    ELSE LET n == matchLen(w, p)
         IN  IF n = 0 THEN regexMatches(w, p + 1)
             ELSE <<SubSeq(w, p, p + n - 1)>> \o regexMatches(w, p + n)

\* ------------------------------------------------------------------------
\* The lookups of encode, decode, byteEncodeToken and bpe.
\* ------------------------------------------------------------------------

\* afterAt with operator[] in place of at: a key that is absent is inserted
\* with the value 0.
afterSubscript(map, keys) ==
    [k \in (DOMAIN map) \cup keys |-> IF k \in DOMAIN map THEN map[k] ELSE 0]

\* A map after at(key) or find(key) for each of keys: both only read the map,
\* whether the key is there or not.
afterAt(map, keys) == map

\* ------------------------------------------------------------------------
\* byteEncodeToken, getPairs and bpe.
\* ------------------------------------------------------------------------

\* byteEncodeToken: m_b2u.at for each byte; [thrown, wstr].
byteEncodeToken(token) ==
    IF \E k \in 1..Len(token) : token[k] \notin DOMAIN m_b2u
    THEN [thrown |-> "out_of_range", wstr |-> <<>>]
    ELSE [thrown |-> "none", wstr |-> [k \in 1..Len(token) |-> m_b2u[token[k]]]]

\* getPairs: the adjacent pairs of one-character strings; none for a word of
\* fewer than two characters.
getPairs(word) ==
    IF Len(word) < 2 THEN <<>>
    ELSE [k \in 1..(Len(word) - 1) |-> <<<<word[k]>>, <<word[k + 1]>>>>]

\* std::numeric_limits<ssize_t>::max(), the score of a pair without a rule.
\* The model's integers are 32 bits wide; every rank is a line number, far
\* below either value.
ssizeMax == 2147483647

\* The lambda left: the nearest slot before slot that is not merged (0: none).
left(slot, merged) ==
    LET c == {j \in 1..(slot - 1) : j \notin merged}
    IN  IF c = {} THEN 0 ELSE Max(c)

\* right without the test of merged: the slot after slot.
rightNext(slot, cap, merged) == slot + 1

\* The lambda right: the nearest slot after slot that is not merged (cap + 1:
\* none).
right(slot, cap, merged) ==
    LET c == {j \in (slot + 1)..cap : j \notin merged}
    IN  IF c = {} THEN cap + 1 ELSE Min(c)

\* The score of slot k: its rank, or ssizeMax when no rule has the pair.
score(pairs, k) ==
    IF pairs[k] \in DOMAIN m_bpeRanks THEN m_bpeRanks[pairs[k]] ELSE ssizeMax

\* selectFrom with <= for the ranks of rules: of two slots of the same rank
\* the later one is kept.
RECURSIVE selectLastFrom(_, _, _, _, _)
selectLastFrom(pairs, merged, k, minScore, toMerge) ==
    IF k > Len(pairs) THEN toMerge
    ELSE IF /\ k \notin merged
            /\ score(pairs, k) <= minScore
            /\ score(pairs, k) < ssizeMax
    THEN selectLastFrom(pairs, merged, k + 1, score(pairs, k), k)
    ELSE selectLastFrom(pairs, merged, k + 1, minScore, toMerge)

\* The selection loop of bpe from slot k on, with the running minScore and
\* toMerge (0 for the source's -1).
RECURSIVE selectFrom(_, _, _, _, _)
selectFrom(pairs, merged, k, minScore, toMerge) ==
    IF k > Len(pairs) THEN toMerge
    ELSE IF k \notin merged /\ score(pairs, k) < minScore
    THEN selectFrom(pairs, merged, k + 1, score(pairs, k), k)
    ELSE selectFrom(pairs, merged, k + 1, minScore, toMerge)

toMergeOf(pairs, merged) == selectFrom(pairs, merged, 1, ssizeMax, 0)

\* One pass of the merge loop for the selected slot t: mark it merged and patch
\* the nearest unmerged neighbours.  [pairs, merged].
mergeSlot(pairs, merged, t) ==
    LET m2 == merged \cup {t}
        mergeInto == pairs[t][1] \o pairs[t][2]
        l == left(t, m2)
        p1 == IF l >= 1 THEN [pairs EXCEPT ![l] = <<pairs[l][1], mergeInto>>]
              ELSE pairs
        r == right(t, Len(pairs), m2)
        p2 == IF r <= Len(pairs) THEN [p1 EXCEPT ![r] = <<mergeInto, p1[r][2]>>]
              ELSE p1
    IN  [pairs |-> p2, merged |-> m2]

\* while (true) { select; if (toMerge == -1) break; merge }
RECURSIVE mergeLoop(_, _)
mergeLoop(pairs, merged) ==
    LET t == toMergeOf(pairs, merged)
    IN  IF t = 0 THEN [pairs |-> pairs, merged |-> merged]
        ELSE LET st == mergeSlot(pairs, merged, t)
             IN  mergeLoop(st.pairs, st.merged)

\* emitFrom without the test of left: every unmerged slot emits both symbols.
RECURSIVE emitBothFrom(_, _, _)
emitBothFrom(pairs, merged, k) ==
    IF k > Len(pairs) THEN <<>>
    ELSE IF k \in merged THEN emitBothFrom(pairs, merged, k + 1)
    ELSE <<pairs[k][1], pairs[k][2]>> \o emitBothFrom(pairs, merged, k + 1)

\* The reconstruction walk from slot k on.
RECURSIVE emitFrom(_, _, _)
emitFrom(pairs, merged, k) ==
    IF k > Len(pairs) THEN <<>>
    ELSE IF k \in merged THEN emitFrom(pairs, merged, k + 1)
    ELSE (IF left(k, merged) < 1 THEN <<pairs[k][1]>> ELSE <<>>)
         \o <<pairs[k][2]>> \o emitFrom(pairs, merged, k + 1)

\* bpe: the symbols appended to *result for one byte-encoded token.
bpe(token) ==
    LET st == mergeLoop(getPairs(token), {})
    IN  IF Cardinality(st.merged) = Len(st.pairs) THEN <<token>>
        ELSE emitFrom(st.pairs, st.merged, 1)

\* ------------------------------------------------------------------------
\* tokenize.
\* ------------------------------------------------------------------------

\* The token strings tokenize appends for the matches ms, in order.
RECURSIVE tokensOfMatches(_)
tokensOfMatches(ms) ==
    IF ms = <<>> THEN [thrown |-> "none", tokens |-> <<>>]
    ELSE LET enc == byteEncodeToken(wstringToUTF8(Head(ms)))
             rest == tokensOfMatches(Tail(ms))
         IN  IF enc.thrown # "none" THEN [thrown |-> enc.thrown, tokens |-> <<>>]
             ELSE IF rest.thrown # "none" THEN rest
             ELSE LET syms == bpe(enc.wstr)
                  IN  [thrown |-> "none",
                       tokens |-> [k \in 1..Len(syms) |-> wstringToUTF8(syms[k])]
                                  \o rest.tokens]

\* The pretokens of a marker-free segment: the matches m_re finds in it.
pretokens(str) == regexMatches(utf8ToWString(str, 0).wstr, 1)

\* tokenize(text, result): [thrown, tokens], tokens being what it appends.
tokenize(str) ==
    IF utf8ToWString(str, 0).thrown # "none"
    THEN [thrown |-> "runtime_error", tokens |-> <<>>]
    ELSE tokensOfMatches(pretokens(str))

\* The pairs the first selection pass of bpe looks up in m_bpeRanks for each
\* match of tokenize(str).
pairsOf(str) ==
    UNION {Range(getPairs(byteEncodeToken(wstringToUTF8(pretokens(str)[k])).wstr)) :
              k \in 1..Len(pretokens(str))}

\* ------------------------------------------------------------------------
\* encode and decode.
\* ------------------------------------------------------------------------

npos == -1

\* text.find(pat, from): the first 0-based offset >= from at which pat occurs
\* in str, npos if there is none.  The empty pat occurs at every offset up to
\* size().
find(str, pat, from) ==
    LET at == {o \in from..(Len(str) - Len(pat)) :
                  \A k \in 1..Len(pat) : str[o + k] = pat[k]}
    IN  IF at = {} THEN npos ELSE Min(at)

\* text.substr(from, n) for 0-based from.
substr(str, from, n) == SubSeq(str, from + 1, from + n)

\* afterMarker with a slip: the search resumes one byte after the occurrence.
afterMarkerByOne(at, marker) == at + 1

\* s = i + eot.size(): where the search resumes after the occurrence at i.
afterMarker(at, marker) == at + Len(marker)

\* idsOf with operator[] in place of at: an absent token gets the id 0.
idsOfOrDefault(toks) ==
    [thrown |-> "none",
     ids |-> [k \in 1..Len(toks) |->
                 IF toks[k] \in DOMAIN m_t2i THEN m_t2i[toks[k]] ELSE 0]]

\* m_t2i.at(token) for every token: [thrown, ids]; no id is returned when one
\* lookup throws.
idsOf(toks) ==
    IF \E k \in 1..Len(toks) : toks[k] \notin DOMAIN m_t2i
    THEN [thrown |-> "out_of_range", ids |-> <<>>]
    ELSE [thrown |-> "none", ids |-> [k \in 1..Len(toks) |-> m_t2i[toks[k]]]]

\* str += m_i2t.at(id) for every id: [thrown, str].
tokenStringOf(ids) ==
    IF \E k \in 1..Len(ids) : ids[k] \notin DOMAIN m_i2t
    THEN [thrown |-> "out_of_range", str |-> <<>>]
    ELSE [thrown |-> "none", str |-> Flatten([k \in 1..Len(ids) |-> m_i2t[ids[k]]])]

\* text.push_back(char(m_u2b.at(c))) for every c of wstr: [thrown, text].
bytesOf(wstr) ==
    IF \E k \in 1..Len(wstr) : wstr[k] \notin DOMAIN m_u2b
    THEN [thrown |-> "out_of_range", text |-> <<>>]
    ELSE [thrown |-> "none", text |-> [k \in 1..Len(wstr) |-> m_u2b[wstr[k]]]]

\* decode(tokenIds): [thrown, text].  oob is what a read past the end of the
\* concatenated token string yields.
decode(ids, oob) ==
    LET str == tokenStringOf(ids)
        w == utf8ToWString(str.str, oob)
    IN  IF str.thrown # "none" THEN [thrown |-> str.thrown, text |-> <<>>]
        ELSE IF w.thrown # "none" THEN [thrown |-> w.thrown, text |-> <<>>]
        ELSE bytesOf(w.wstr)

\* ------------------------------------------------------------------------
\* The inputs of the model.
\* ------------------------------------------------------------------------

\* The default end-of-text marker "<|endoftext|>".
defaultEot == <<60, 124, 101, 110, 100, 111, 102, 116, 101, 120, 116, 124, 62>>

\* The characters texts are made of, each as its UTF-8 bytes: t ' space _ 1
\* newline, the two-byte e-acute, and the default marker as one unit.
Alphabet ==
    {<<116>>, <<39>>, <<32>>, <<95>>, <<49>>, <<10>>, <<195, 169>>, defaultEot}

Texts == UnitSeqs(Alphabet, MaxTextLen)

Prompts == UnitSeqs(Alphabet, MaxPromptLen) \ {<<>>}

\* The markers encode is called with: the default, the empty string, "tt".
Eots == {defaultEot, <<>>, <<116, 116>>}

\* What a read outside a string may yield.
Garbage == {0, 191}

\* A merge-rules file: the version line, then
\*   G+t, t+t, tt+t, '+t, A~+(c)   (G = U+0120, A~ = U+00C3, (c) = U+00A9).
mergesLines ==
    <<<<35, 118>>,
      <<196, 160, 32, 116>>,
      <<116, 32, 116>>,
      <<116, 116, 32, 116>>,
      <<39, 32, 116>>,
      <<195, 131, 32, 194, 169>>>>

\* A vocabulary file: token line, id line, ...  The tokens of every symbol the
\* merge rules above can produce from Alphabet (underscore left out), the
\* marker, "tt" as a marker; then a token and an id that occur a second time,
\* and four token strings that are not well-formed UTF-8.
vocabLines ==
    <<<<116>>, <<48>>,
      <<39>>, <<49>>,
      <<49>>, <<50>>,
      <<196, 160>>, <<51>>,
      <<195, 131>>, <<52>>,
      <<194, 169>>, <<53>>,
      <<116, 116>>, <<54>>,
      <<196, 160, 116>>, <<55>>,
      <<39, 116>>, <<56>>,
      <<116, 116, 116>>, <<57>>,
      <<195, 131, 194, 169>>, <<49, 48>>,
      defaultEot, <<49, 49>>,
      <<196, 138>>, <<49, 50>>,
      <<116>>, <<49, 51>>,
      <<122, 122>>, <<48>>,
      <<131, 65>>, <<50, 48>>,
      <<196>>, <<50, 49>>,
      <<248>>, <<50, 50>>,
      <<160>>, <<50, 51>>>>

\* A vocabulary file whose second id line is not a number.
badVocabLines == <<<<116>>, <<48>>, <<39>>, <<120>>, <<49>>, <<50>>>>

\* The (merge-rules file, vocabulary file) pairs a run starts from.
Resources ==
    {<<File("ok", mergesLines), File("ok", vocabLines)>>,
     <<File("unreadable", mergesLines), File("ok", vocabLines)>>,
     <<File("missing", <<>>), File("unreadable", vocabLines)>>,
     <<File("ok", mergesLines), File("ok", badVocabLines)>>}

\* The ids of the pairs of the vocabulary file above.
vocabIds == {stoi(vocabLines[2 * k]).value : k \in 1..(Len(vocabLines) \div 2)}

\* An id of no pair of the vocabulary file.
unknownId == Max(vocabIds) + 1

\* The ids a client hands to decode: every id of the vocabulary file and one
\* that is in no vocabulary.
Ids == vocabIds \cup {unknownId}

IdSeqs == UNION {[1..n -> Ids] : n \in 0..MaxIds}

\* The ids the forward pass of main's model yields: t, G, A~, (c), the two
\* halves of G as tokens of their own, and the id of no token.
GenIds == {0, 3, 4, 5, 21, 23, unknownId}

\* ------------------------------------------------------------------------
\* The state of one call of bpe.
\* ------------------------------------------------------------------------

VARIABLES
    token,          \* bpe's argument token (a byte-encoded pretoken)
    pairs,          \* bpe's local pairs
    merged,         \* bpe's local merged
    result          \* what bpe has appended to *result

vars == <<pc, mergesFile, vocabsFile, m_bpeRanks, m_b2u, m_u2b, m_t2i, m_i2t,
          text, eot, s, i, tokens, encOut, decIn, decOut, inputTokenIds, printed,
          token, pairs, merged, result>>

\* The locals of bpe and the vector tokenize hands it.
bpeLocals == <<token, pairs, merged, result>>

\* The locals, arguments and results of encode, decode and main.
callLocals ==
    <<text, eot, s, i, tokens, encOut, decIn, decOut, inputTokenIds, printed>>

\* ------------------------------------------------------------------------
\* The operations.
\* ------------------------------------------------------------------------

NoResult == [thrown |-> "nocall"]

Init ==
    /\ pc = "new"
    /\ \E r \in Resources : mergesFile = r[1] /\ vocabsFile = r[2]
    /\ m_bpeRanks = EmptyMap
    /\ m_b2u = EmptyMap
    /\ m_u2b = EmptyMap
    /\ m_t2i = EmptyMap
    /\ m_i2t = EmptyMap
    /\ text = <<>>
    /\ eot = <<>>
    /\ s = 0
    /\ i = npos
    /\ tokens = <<>>
    /\ encOut = NoResult
    /\ decIn = <<>>
    /\ decOut = NoResult
    /\ inputTokenIds = <<>>
    /\ printed = <<>>
    /\ token = <<>>
    /\ pairs = <<>>
    /\ merged = {}
    /\ result = <<>>

\* BPE::BPE(mergesFile, vocabsFile): loadMergeRules, loadVocab,
\* bytesToUnicode.  An exception of a loader leaves no object behind.
Construct ==
    /\ pc \in {"new", "validated"}
    /\ \E oob \in Garbage :
         LET mr == loadMergeRules(mergesFile, oob)
             vo == loadVocab(vocabsFile)
         IN  IF mr.thrown # "none" \/ vo.thrown # "none"
             THEN /\ pc' = "terminated"
                  /\ UNCHANGED tables
             ELSE /\ pc' = "ready"
                  /\ m_bpeRanks' = mr.ranks
                  /\ m_t2i' = vo.t2i
                  /\ m_i2t' = vo.i2t
                  /\ m_b2u' = b2uTable
                  /\ m_u2b' = u2bTable
    /\ UNCHANGED bpeLocals
    /\ UNCHANGED <<mergesFile, vocabsFile, text, eot, s, i, tokens, encOut,
                   decIn, decOut, inputTokenIds, printed>>

\* The call encode(t, e), up to the loop test: s = 0, i = text.find(eot).
EncodeCall(t, e) ==
    /\ pc = "ready"
    /\ pc' = "encode"
    /\ text' = t
    /\ eot' = e
    /\ s' = 0
    /\ i' = find(t, e, 0)
    /\ tokens' = <<>>
    /\ UNCHANGED bpeLocals
    /\ UNCHANGED <<mergesFile, vocabsFile, tables, encOut, decIn, decOut,
                   inputTokenIds, printed>>

\* The passes of the marker-splitting loop made so far: each has appended eot
\* to tokens, and no token of a segment is the marker itself.
passesDone == Cardinality({k \in 1..Len(tokens) : tokens[k] = eot})

\* One pass of the marker-splitting loop (i != npos).  An exception of
\* tokenize ends the call.
EncodeSplit ==
    /\ pc = "encode"
    /\ i # npos
    /\ passesDone < MaxSplits
    /\ LET seg == tokenize(substr(text, s, i - s))
       IN  IF seg.thrown # "none"
           THEN /\ pc' = "encoded"
                /\ encOut' = [thrown |-> seg.thrown, ids |-> <<>>]
                /\ UNCHANGED <<s, i, tokens>>
           ELSE /\ tokens' = (tokens \o seg.tokens) \o <<eot>>
                /\ s' = afterMarker(i, eot)
                /\ i' = find(text, eot, afterMarker(i, eot))
                /\ UNCHANGED <<pc, encOut>>
    /\ m_b2u' = afterAt(m_b2u, Range(substr(text, s, i - s)))
    /\ m_bpeRanks' = afterAt(m_bpeRanks, pairsOf(substr(text, s, i - s)))
    /\ UNCHANGED bpeLocals
    /\ UNCHANGED <<mergesFile, vocabsFile, m_u2b, m_t2i, m_i2t, text, eot, decIn,
                   decOut, inputTokenIds, printed>>

\* After the loop (i == npos): the last segment, then the id lookups.
EncodeReturn ==
    /\ pc = "encode"
    /\ i = npos
    /\ LET seg == tokenize(substr(text, s, Len(text) - s))
           all == tokens \o seg.tokens
       IN  IF seg.thrown # "none"
           THEN /\ encOut' = [thrown |-> seg.thrown, ids |-> <<>>]
                /\ UNCHANGED <<tokens, m_t2i>>
           ELSE /\ tokens' = all
                /\ encOut' = idsOf(all)
                /\ m_t2i' = afterAt(m_t2i, Range(all))
    /\ m_b2u' = afterAt(m_b2u, Range(substr(text, s, Len(text) - s)))
    /\ m_bpeRanks' = afterAt(m_bpeRanks, pairsOf(substr(text, s, Len(text) - s)))
    /\ pc' = "encoded"
    /\ UNCHANGED bpeLocals
    /\ UNCHANGED <<mergesFile, vocabsFile, m_u2b, m_i2t, text, eot, s, i, decIn,
                   decOut, inputTokenIds, printed>>

\* The maps of decode after the lookups of decode(ids): m_i2t.at for the
\* ids, m_u2b.at for the code points of the token strings.
DecodeLookups(ids, oob) ==
    /\ m_i2t' = afterAt(m_i2t, Range(ids))
    /\ m_u2b' = afterAt(m_u2b, Range(utf8ToWString(tokenStringOf(ids).str, oob).wstr))
    /\ UNCHANGED <<m_bpeRanks, m_b2u, m_t2i>>

\* decode(encOut.ids): the client decodes what encode has just returned.
DecodeEncoded ==
    /\ pc = "encoded"
    /\ encOut.thrown = "none"
    /\ pc' = "decoded"
    /\ decIn' = encOut.ids
    /\ \E oob \in Garbage :
          decOut' = decode(encOut.ids, oob) /\ DecodeLookups(encOut.ids, oob)
    /\ UNCHANGED bpeLocals
    /\ UNCHANGED <<mergesFile, vocabsFile, text, eot, s, i, tokens,
                   encOut, inputTokenIds, printed>>

\* decode(ids) for ids of the client's own.
DecodeCall(ids) ==
    /\ pc = "ready"
    /\ pc' = "decoded"
    /\ decIn' = ids
    /\ \E oob \in Garbage : decOut' = decode(ids, oob) /\ DecodeLookups(ids, oob)
    /\ UNCHANGED bpeLocals
    /\ UNCHANGED <<mergesFile, vocabsFile, text, eot, s, i, tokens,
                   encOut, inputTokenIds, printed>>

\* The client drops the arguments and results of its last calls; the locals of
\* encode are gone since it returned.
Forget ==
    /\ pc \in {"encoded", "decoded"}
    /\ pc' = "ready"
    /\ text' = <<>>
    /\ eot' = <<>>
    /\ s' = 0
    /\ i' = npos
    /\ tokens' = <<>>
    /\ encOut' = NoResult
    /\ decIn' = <<>>
    /\ decOut' = NoResult
    /\ UNCHANGED bpeLocals
    /\ UNCHANGED <<mergesFile, vocabsFile, tables, inputTokenIds, printed>>

\* main: validateFileExistence for both files; exit(-1) when one is missing.
validateFileExistence ==
    /\ pc = "new"
    /\ pc' = IF mergesFile.state = "missing" \/ vocabsFile.state = "missing"
             THEN "exited" ELSE "validated"
    /\ UNCHANGED bpeLocals
    /\ UNCHANGED <<mergesFile, vocabsFile, tables, text, eot, s, i, tokens, encOut,
                   decIn, decOut, inputTokenIds, printed>>

\* main: inputTokenIds = bpe.encode(prompt).  main catches nothing: an
\* exception of encode ends the program.
GenStart ==
    /\ pc = "encoded"
    /\ IF encOut.thrown # "none"
       THEN pc' = "terminated" /\ UNCHANGED inputTokenIds
       ELSE pc' = "generate" /\ inputTokenIds' = encOut.ids
    /\ UNCHANGED bpeLocals
    /\ UNCHANGED <<mergesFile, vocabsFile, tables, text, eot, s, i, tokens, encOut,
                   decIn, decOut, printed>>

\* The ids main's loop has appended to the prompt's.
generated == SubSeq(inputTokenIds, Len(encOut.ids) + 1, Len(inputTokenIds))

\* One pass of main's generation loop: the forward pass and argmax yield some
\* id, decode({id}) is written to std::cout, the id is appended.
GenStep ==
    /\ pc = "generate"
    /\ Len(generated) < MaxGen
    /\ \E id \in GenIds, oob \in Garbage :
         LET out == decode(<<id>>, oob)
         IN  /\ IF out.thrown # "none"
                THEN pc' = "terminated" /\ UNCHANGED <<inputTokenIds, printed>>
                ELSE /\ printed' = printed \o out.text
                     /\ inputTokenIds' = Append(inputTokenIds, id)
                     /\ UNCHANGED pc
             /\ DecodeLookups(<<id>>, oob)
    /\ UNCHANGED bpeLocals
    /\ UNCHANGED <<mergesFile, vocabsFile, text, eot, s, i, tokens, encOut,
                   decIn, decOut>>

\* A client of the class: construct, then any calls of encode and decode.
Next ==
    \/ pc = "new" /\ Construct
    \/ pc = "ready" /\ \E t \in Texts, e \in Eots : EncodeCall(t, e)
    \/ EncodeSplit
    \/ EncodeReturn
    \/ DecodeEncoded
    \/ pc = "ready" /\ \E ids \in IdSeqs : DecodeCall(ids)
    \/ Forget

Spec == Init /\ [][Next]_vars

\* main(): validate, construct, encode the prompt with the default marker,
\* generate.
NextMain ==
    \/ validateFileExistence
    \/ pc = "validated" /\ Construct
    \/ pc = "ready" /\ \E p \in Prompts : EncodeCall(p, defaultEot)
    \/ EncodeSplit
    \/ EncodeReturn
    \/ GenStart
    \/ GenStep

MainSpec == Init /\ [][NextMain]_vars

\* ------------------------------------------------------------------------
\* bpe, one pass of its merge loop at a time, over many merge-rules files.
\* ------------------------------------------------------------------------

\* The rule lines the merge-rules files are made of:
\*   "t t", "tt t", "a t", "a tt", and "tt", a line without a space.
RuleLines ==
    {<<116, 32, 116>>, <<116, 116, 32, 116>>, <<97, 32, 116>>,
     <<97, 32, 116, 116>>, <<116, 116>>}

\* The merge-rules files: the version line and up to MaxRules rule lines, in
\* any order and with repetitions; and a file of no line at all.
RuleFiles ==
    {File("ok", <<>>)}
        \cup {File("ok", <<<<35, 118>>>> \o rules) :
                 rules \in UNION {[1..n -> RuleLines] : n \in 0..MaxRules}}

\* The matches tokenize hands on: the words of 1..MaxWordLen letters t and a.
Words == UNION {[1..n -> {116, 97}] : n \in 1..MaxWordLen}

\* As Init, with the merge-rules file one of RuleFiles.
MergerInit ==
    /\ pc = "new"
    /\ mergesFile \in RuleFiles
    /\ vocabsFile = File("ok", vocabLines)
    /\ m_bpeRanks = EmptyMap
    /\ m_b2u = EmptyMap
    /\ m_u2b = EmptyMap
    /\ m_t2i = EmptyMap
    /\ m_i2t = EmptyMap
    /\ text = <<>>
    /\ eot = <<>>
    /\ s = 0
    /\ i = npos
    /\ tokens = <<>>
    /\ encOut = NoResult
    /\ decIn = <<>>
    /\ decOut = NoResult
    /\ inputTokenIds = <<>>
    /\ printed = <<>>
    /\ token = <<>>
    /\ pairs = <<>>
    /\ merged = {}
    /\ result = <<>>

\* tokenize's loop body for the match wtoken, up to the merge loop of bpe:
\* byteEncodeToken, a new bpeTokens, and in bpe a new merged and getPairs.
\* The match of the pass before and its bpeTokens are gone.
BpeCall(wtoken) ==
    /\ pc \in {"ready", "bpeDone"}
    /\ pc' = "bpe"
    /\ token' = byteEncodeToken(wstringToUTF8(wtoken)).wstr
    /\ pairs' = getPairs(byteEncodeToken(wstringToUTF8(wtoken)).wstr)
    /\ merged' = {}
    /\ result' = <<>>
    /\ m_b2u' = afterAt(m_b2u, Range(wstringToUTF8(wtoken)))
    /\ UNCHANGED <<mergesFile, vocabsFile, m_bpeRanks, m_u2b, m_t2i, m_i2t>>
    /\ UNCHANGED callLocals

\* One pass of bpe's merge loop in which a slot is selected and merged.
BpeMerge ==
    /\ pc = "bpe"
    /\ toMergeOf(pairs, merged) # 0
    /\ pairs' = mergeSlot(pairs, merged, toMergeOf(pairs, merged)).pairs
    /\ merged' = mergeSlot(pairs, merged, toMergeOf(pairs, merged)).merged
    /\ UNCHANGED <<pc, token, result>>
    /\ m_bpeRanks' = afterAt(m_bpeRanks, {pairs[k] : k \in (1..Len(pairs)) \ merged})
    /\ UNCHANGED <<mergesFile, vocabsFile, m_b2u, m_u2b, m_t2i, m_i2t>>
    /\ UNCHANGED callLocals

\* What the reconstruction step of bpe appends to *result for these slots.
emitted(tok, prs, mrg) ==
    IF Cardinality(mrg) = Len(prs) THEN <<tok>> ELSE emitFrom(prs, mrg, 1)

\* The last pass of the merge loop (toMerge == -1: break), and the
\* reconstruction.
BpeReturn ==
    /\ pc = "bpe"
    /\ toMergeOf(pairs, merged) = 0
    /\ pc' = "bpeDone"
    /\ result' = result \o emitted(token, pairs, merged)
    /\ UNCHANGED <<token, pairs, merged>>
    /\ m_bpeRanks' = afterAt(m_bpeRanks, {pairs[k] : k \in (1..Len(pairs)) \ merged})
    /\ UNCHANGED <<mergesFile, vocabsFile, m_b2u, m_u2b, m_t2i, m_i2t>>
    /\ UNCHANGED callLocals

\* Construct, then any calls of bpe as tokenize makes them.
MergerNext ==
    \/ pc = "new" /\ Construct
    \/ pc \in {"ready", "bpeDone"} /\ \E wtoken \in Words : BpeCall(wtoken)
    \/ BpeMerge
    \/ BpeReturn

MergerSpec == MergerInit /\ [][MergerNext]_vars

\* ------------------------------------------------------------------------
\* Vocabulary used by the claims.
\* ------------------------------------------------------------------------

\* The segments of str between the successive occurrences of a non-empty
\* marker, taken leftmost first and without overlap.
RECURSIVE segmentsOf(_, _)
segmentsOf(str, marker) ==
    LET occ == {o \in 0..(Len(str) - Len(marker)) :
                   SubSeq(str, o + 1, o + Len(marker)) = marker}
    IN  IF occ = {} THEN <<str>>
        ELSE LET o == Min(occ)
             IN  <<SubSeq(str, 1, o)>>
                 \o segmentsOf(SubSeq(str, o + Len(marker) + 1, Len(str)), marker)

\* The bytes 0x80..0xBF, which only continue a multi-byte sequence.
isContinuation(b) == b \in 128..191

\* The number of bytes of the sequence a lead byte announces (0: no lead byte).
seqLen(b) ==
    IF b <= 127 THEN 1
    ELSE IF b \in 192..223 THEN 2
    ELSE IF b \in 224..239 THEN 3
    ELSE IF b \in 240..247 THEN 4
    ELSE 0

\* Whether str, from position k on, is a run of complete sequences: a lead
\* byte followed by as many continuation bytes as it announces.
RECURSIVE wellFormedFrom(_, _)
wellFormedFrom(str, k) ==
    IF k > Len(str) THEN TRUE
    ELSE LET n == seqLen(str[k])
         IN  /\ n > 0
             /\ k + n - 1 <= Len(str)
             /\ \A j \in (k + 1)..(k + n - 1) : isContinuation(str[j])
             /\ wellFormedFrom(str, k + n)

wellFormed(str) == wellFormedFrom(str, 1)

\* The states in which the constructor has returned.
Constructed == pc \notin {"new", "validated", "exited", "terminated"}

\* The (token, id) pairs of the vocabulary file, in file order.
vocabPairs ==
    LET ls == linesRead(vocabsFile)
    IN  [k \in 1..(Len(ls) \div 2) |->
            [token |-> ls[2 * k - 1], id |-> stoi(ls[2 * k]).value]]

\* ------------------------------------------------------------------------
\* The claims.
\* ------------------------------------------------------------------------

\* C1: round trip.  Whenever encode(text, eot) has returned ids and the
\* client has decoded them, decode has returned exactly text.
C1_RoundTrip ==
    (pc = "decoded" /\ encOut.thrown = "none" /\ decIn = encOut.ids)
        => decOut = [thrown |-> "none", text |-> text]

\* C2: when encode returns, its ids are the ids of the tokens of the first
\* segment, the id of the marker string, the ids of the tokens of the second
\* segment, the id of the marker string, ..., the ids of the tokens of the last
\* segment, the segments being the pieces of text between the leftmost
\* non-overlapping occurrences of the marker.
C2_MarkerSplit ==
    (pc = "encoded" /\ encOut.thrown = "none" /\ eot # <<>>)
        => LET segs == segmentsOf(text, eot)
               piece(k) == idsOf(tokenize(segs[k]).tokens).ids
                           \o (IF k < Len(segs) THEN <<m_t2i[eot]>> ELSE <<>>)
           IN  encOut.ids = Flatten([k \in 1..Len(segs) |-> piece(k)])

\* C2 witness: encode has returned ids for a text with two occurrences of the
\* marker and a non-empty segment between them.
C2_Witness ==
    /\ pc = "encoded"
    /\ encOut.thrown = "none"
    /\ eot # <<>>
    /\ Len(segmentsOf(text, eot)) = 3
    /\ segmentsOf(text, eot)[2] # <<>>
    /\ Len(encOut.ids) >= 3

\* C3: pretokenizer coverage.  For every segment of an encoded text, the
\* pretokens in order make up the segment: no character is left out.
C3_Coverage ==
    (pc = "encoded" /\ eot # <<>>)
        => \A k \in 1..Len(segmentsOf(text, eot)) :
              LET seg == segmentsOf(text, eot)[k]
              IN  Flatten(pretokens(seg)) = utf8ToWString(seg, 0).wstr

\* C4: after construction m_b2u is defined on all 256 bytes, takes 256 distinct
\* values, is the identity on the printable ranges and sends the k-th other
\* byte (k = 0, 1, ...) to 256 + k, and m_u2b is its inverse.
C4_ByteMapBijection ==
    pc = "ready"
        => LET printable == (33..126) \cup (161..172) \cup (174..255)
           IN  /\ DOMAIN m_b2u = 0..255
               /\ Cardinality(Range(m_b2u)) = 256
               /\ \A b \in printable : m_b2u[b] = b
               /\ \A b \in (0..255) \ printable :
                     m_b2u[b] = 256 + Cardinality({x \in 0..(b - 1) : x \notin printable})
               /\ DOMAIN m_u2b = Range(m_b2u)
               /\ \A b \in 0..255 : m_u2b[m_b2u[b]] = b

\* C4 witness: the constructor has returned, and the space and byte 0xAD are
\* mapped out of the printable ranges and back.
C4_Witness ==
    /\ pc = "ready"
    /\ m_b2u[32] = 288 /\ m_u2b[288] = 32
    /\ m_b2u[173] = 323 /\ m_u2b[323] = 173

\* Whether two adjacent ids of ids decode, each on its own, to the lead byte
\* and the continuation byte of one two-byte character.
splitsCharacter(ids) ==
    \E k \in 1..(Len(ids) - 1) :
        LET a == decode(<<ids[k]>>, 0).text
            b == decode(<<ids[k + 1]>>, 0).text
        IN  /\ a # <<>> /\ b # <<>>
            /\ seqLen(a[Len(a)]) = 2
            /\ isContinuation(b[1])

\* C5 as stated: when the ids main's loop has generated split a multi-byte
\* character across adjacent ids, decoding them together differs from what the
\* loop has written by decoding them one at a time.
C5_SplitCharacterDiffers ==
    (pc = "generate" /\ splitsCharacter(generated))
        => decode(generated, 0) # [thrown |-> "none", text |-> printed]

\* C5 amended: when the token string of every generated id is well-formed
\* UTF-8, decoding the generated ids together returns exactly what the loop
\* has written by decoding them one at a time.
C5_PerIdDecodeAgrees ==
    (pc = "generate" /\ \A k \in 1..Len(generated) : wellFormed(m_i2t[generated[k]]))
        => decode(generated, 0) = [thrown |-> "none", text |-> printed]

\* C5 witness: the loop has generated the ids of the two halves of e-acute,
\* one after the other, and has written the two bytes of the character.
C5_Witness ==
    /\ pc = "generate"
    /\ splitsCharacter(generated)
    /\ \A k \in 1..Len(generated) : wellFormed(m_i2t[generated[k]])
    /\ printed = <<195, 169>>

\* C6: the constructor returns only if both files could be read.
C6_LoadFailureFatal ==
    Constructed => (mergesFile.state = "ok" /\ vocabsFile.state = "ok")

\* C7 as stated: for every pair of the vocabulary file, tokenToId(token) is the
\* id of the last pair with that token and idToToken(id) the token of the last
\* pair with that id.
C7_LastWins ==
    (pc = "ready" /\ vocabsFile.state = "ok")
        => \A k \in 1..Len(vocabPairs) :
              LET sameToken == {j \in 1..Len(vocabPairs) :
                                   vocabPairs[j].token = vocabPairs[k].token}
                  sameId == {j \in 1..Len(vocabPairs) : vocabPairs[j].id = vocabPairs[k].id}
              IN  /\ m_t2i[vocabPairs[k].token] = vocabPairs[Max(sameToken)].id
                  /\ m_i2t[vocabPairs[k].id] = vocabPairs[Max(sameId)].token

\* C7 amended: the first occurrence wins in each table: tokenToId(token) is the
\* id of the first pair with that token and idToToken(id) the token of the
\* first pair with that id; the tables hold nothing else.
C7_FirstWins ==
    (pc = "ready" /\ vocabsFile.state = "ok")
        => /\ DOMAIN m_t2i = {vocabPairs[k].token : k \in 1..Len(vocabPairs)}
           /\ DOMAIN m_i2t = {vocabPairs[k].id : k \in 1..Len(vocabPairs)}
           /\ \A k \in 1..Len(vocabPairs) :
                 LET sameToken == {j \in 1..Len(vocabPairs) :
                                      vocabPairs[j].token = vocabPairs[k].token}
                     sameId == {j \in 1..Len(vocabPairs) :
                                   vocabPairs[j].id = vocabPairs[k].id}
                 IN  /\ m_t2i[vocabPairs[k].token] = vocabPairs[Min(sameToken)].id
                     /\ m_i2t[vocabPairs[k].id] = vocabPairs[Min(sameId)].token

\* C7 witness: a vocabulary with a token that occurs twice with different ids
\* and an id that occurs twice with different tokens has been loaded.
C7_Witness ==
    /\ pc = "ready"
    /\ vocabsFile.state = "ok"
    /\ \E j, k \in 1..Len(vocabPairs) :
          /\ j < k
          /\ vocabPairs[j].token = vocabPairs[k].token
          /\ vocabPairs[j].id # vocabPairs[k].id
    /\ \E j, k \in 1..Len(vocabPairs) :
          /\ j < k
          /\ vocabPairs[j].id = vocabPairs[k].id
          /\ vocabPairs[j].token # vocabPairs[k].token

\* C8: a lookup of something absent is an error and nothing is returned: when
\* one of the token strings of an encode call (the marker included) is not in
\* m_t2i the call throws and returns no id, and when one of the ids of a
\* decode call is not in m_i2t the call throws and returns no text.
C8_AbsenceIsError ==
    /\ (pc = "encoded" /\ \E k \in 1..Len(tokens) : tokens[k] \notin DOMAIN m_t2i)
          => encOut = [thrown |-> "out_of_range", ids |-> <<>>]
    /\ (pc = "decoded" /\ \E k \in 1..Len(decIn) : decIn[k] \notin DOMAIN m_i2t)
          => decOut = [thrown |-> "out_of_range", text |-> <<>>]

\* C8 witness: an encode call has thrown with tokens of which the first is in
\* the vocabulary and a later one is not.
C8_Witness ==
    /\ pc = "encoded"
    /\ Len(tokens) >= 2
    /\ tokens[1] \in DOMAIN m_t2i
    /\ \E k \in 2..Len(tokens) : tokens[k] \notin DOMAIN m_t2i
    /\ encOut.thrown = "out_of_range"

\* The three shapes of ill-formed UTF-8 of C9: from position k on, a
\* continuation byte where a sequence starts, a byte 0xF8..0xFF there, or a
\* sequence cut short by the end of the string.
RECURSIVE illFormedFrom(_, _)
illFormedFrom(str, k) ==
    IF k > Len(str) THEN FALSE
    ELSE \/ isContinuation(str[k])
         \/ str[k] >= 248
         \/ k + seqLen(str[k]) - 1 > Len(str)
         \/ illFormedFrom(str, k + seqLen(str[k]))

\* C9: a decode call whose concatenated token string is ill-formed in one of
\* these ways throws the error of utf8ToWString and returns no text.
C9_InvalidEncoding ==
    (/\ pc = "decoded"
     /\ tokenStringOf(decIn).thrown = "none"
     /\ illFormedFrom(tokenStringOf(decIn).str, 1))
        => decOut = [thrown |-> "runtime_error", text |-> <<>>]

\* C10: encode's marker-splitting loop terminates: every pass that leaves the
\* call in the loop has moved s forward in text.
C10_SplitLoopAdvances ==
    [][(pc = "encode" /\ pc' = "encode") => s' > s]_vars

\* The rule lines of the merge-rules file: all its lines but the first.
ruleLinesOf ==
    IF linesRead(mergesFile) = <<>> THEN <<>> ELSE Tail(linesRead(mergesFile))

hasSpace(line) == \E k \in 1..Len(line) : line[k] = 32

\* What is before and what is after the first space of a line that has one.
splitAtFirstSpace(line) ==
    LET d == CHOOSE k \in 1..Len(line) :
                 line[k] = 32 /\ \A j \in 1..(k - 1) : line[j] # 32
    IN  <<SubSeq(line, 1, d - 1), SubSeq(line, d + 1, Len(line))>>

\* The pair a rule line stands for (the lines of RuleFiles are ASCII, their
\* bytes are their characters): its two halves or, without a space, the line
\* twice.
pairOfLine(line) ==
    IF hasSpace(line) THEN splitAtFirstSpace(line) ELSE <<line, line>>

\* C11 as stated: after loading, every rule line (the k-th line after the
\* first, split at its first space) is in the table with rank k, and a file of
\* the first line alone gives an empty table.
C11_RankIsLineIndex ==
    (Constructed /\ mergesFile.state = "ok")
        => /\ \A k \in 1..Len(ruleLinesOf) :
                 hasSpace(ruleLinesOf[k])
                    => /\ splitAtFirstSpace(ruleLinesOf[k]) \in DOMAIN m_bpeRanks
                       /\ m_bpeRanks[splitAtFirstSpace(ruleLinesOf[k])] = k
           /\ ruleLinesOf = <<>> => m_bpeRanks = EmptyMap

\* C11 amended: after loading, the table holds exactly the pairs of the rule
\* lines, each with the 1-based index, among the rule lines, of the first line
\* that stands for it (a later line of the same pair is ignored); a line
\* without a space stands for the pair (line, line); a file of the first line
\* alone, or of no line, gives an empty table.
C11_RankIsFirstLineIndex ==
    (Constructed /\ mergesFile.state = "ok")
        => /\ DOMAIN m_bpeRanks
                 = {pairOfLine(ruleLinesOf[k]) : k \in 1..Len(ruleLinesOf)}
           /\ \A k \in 1..Len(ruleLinesOf) :
                 m_bpeRanks[pairOfLine(ruleLinesOf[k])]
                    = Min({j \in 1..Len(ruleLinesOf) :
                              pairOfLine(ruleLinesOf[j]) = pairOfLine(ruleLinesOf[k])})
           /\ ruleLinesOf = <<>> => m_bpeRanks = EmptyMap

\* C11 witness: a file of three rule lines with a space each, the third the
\* same as the first, has been loaded: two rules, of ranks 1 and 2.
C11_Witness ==
    /\ pc = "ready"
    /\ Len(ruleLinesOf) = 3
    /\ \A k \in 1..3 : hasSpace(ruleLinesOf[k])
    /\ ruleLinesOf[1] = ruleLinesOf[3]
    /\ ruleLinesOf[1] # ruleLinesOf[2]
    /\ m_bpeRanks[splitAtFirstSpace(ruleLinesOf[1])] = 1
    /\ m_bpeRanks[splitAtFirstSpace(ruleLinesOf[2])] = 2

\* C12: symbol count.  A call of bpe for a token of k >= 1 symbols starts with
\* k symbols to emit; every pass of the merge loop that merges a slot leaves
\* exactly one symbol fewer to emit; what bpe appends on return is what was
\* left to emit, k - m symbols after m merges, and the token itself, as one
\* symbol, for a token of one symbol.
C12_SymbolCount ==
    [][/\ (pc # "bpe" /\ pc' = "bpe")
             => Len(emitted(token', pairs', merged')) = Len(token')
       /\ (pc = "bpe" /\ pc' = "bpe")
             => /\ Cardinality(merged') = Cardinality(merged) + 1
                /\ Len(emitted(token', pairs', merged'))
                      = Len(emitted(token, pairs, merged)) - 1
       /\ (pc = "bpe" /\ pc' = "bpeDone")
             => /\ result' = emitted(token, pairs, merged)
                /\ Len(result') = Len(token) - Cardinality(merged)
                /\ Len(token) = 1 => result' = <<token>>]_vars

\* C12 witness: bpe has returned two symbols for a token of four symbols,
\* after two merges.
C12_Witness ==
    /\ pc = "bpeDone"
    /\ Len(token) = 4
    /\ Cardinality(merged) = 2
    /\ Len(result) = 2

\* C13: frame.  Once the constructor has returned, no step of an encode or
\* decode call, returning or throwing, changes m_bpeRanks, m_b2u, m_u2b, m_t2i
\* or m_i2t; and every encode call starts from its own empty tokens and s = 0,
\* whatever the calls before it left.
C13_TablesUnchanged ==
    [][Constructed
          => /\ m_bpeRanks' = m_bpeRanks
             /\ m_b2u' = m_b2u
             /\ m_u2b' = m_u2b
             /\ m_t2i' = m_t2i
             /\ m_i2t' = m_i2t
             /\ (pc # "encode" /\ pc' = "encode") => (tokens' = <<>> /\ s' = 0)]_vars

\* C13 witness: an encode call has thrown at a token that is not in the
\* vocabulary, after looking up one that is, and the maps are those the
\* constructor built.
C13_Witness ==
    /\ pc = "encoded"
    /\ encOut.thrown = "out_of_range"
    /\ Len(tokens) >= 2
    /\ tokens[1] \in DOMAIN m_t2i
    /\ m_bpeRanks = loadMergeRules(mergesFile, 0).ranks
    /\ m_t2i = loadVocab(vocabsFile).t2i
    /\ m_i2t = loadVocab(vocabsFile).i2t
    /\ m_b2u = b2uTable
    /\ m_u2b = u2bTable

\* The one-character symbols a token starts as.
symbolsOf(tok) == [k \in 1..Len(tok) |-> <<tok[k]>>]

\* The positions of syms whose symbol and the next one form a pair of
\* m_bpeRanks.
rulePositions(syms) ==
    {k \in 1..(Len(syms) - 1) : <<syms[k], syms[k + 1]>> \in DOMAIN m_bpeRanks}

\* One step of the reference procedure on a symbol list with a pair that has a
\* rule: the leftmost adjacent pair of lowest rank is replaced by its
\* concatenation.
referenceStep(syms) ==
    LET rankAt(k) == m_bpeRanks[<<syms[k], syms[k + 1]>>]
        lowest == Min({rankAt(k) : k \in rulePositions(syms)})
        at == Min({k \in rulePositions(syms) : rankAt(k) = lowest})
    IN  SubSeq(syms, 1, at - 1) \o <<syms[at] \o syms[at + 1]>>
            \o SubSeq(syms, at + 2, Len(syms))

\* The symbol list after n steps of the reference procedure (fewer if it stops
\* before).
RECURSIVE referenceAfter(_, _)
referenceAfter(syms, n) ==
    IF n = 0 \/ rulePositions(syms) = {} THEN syms
    ELSE referenceAfter(referenceStep(syms), n - 1)

\* The reference procedure: steps until no adjacent pair has a rule.
reference(syms) == referenceAfter(syms, Len(syms))

\* C14: the pair-slot implementation against the reference procedure.  After
\* m passes of the merge loop the symbols the slots stand for are the symbol
\* list of the reference procedure after m steps; bpe returns the list the
\* reference procedure stops with; the symbols returned concatenate to the
\* token, and no two adjacent ones form a pair of the merge table.
C14_MatchesReference ==
    /\ pc = "bpe"
          => emitted(token, pairs, merged)
                = referenceAfter(symbolsOf(token), Cardinality(merged))
    /\ pc = "bpeDone"
          => /\ result = reference(symbolsOf(token))
             /\ Flatten(result) = token
             /\ rulePositions(result) = {}

\* C14 witness: bpe has returned for a token of four symbols after merging
\* slot 2 and then slot 1, so that the slot patched on the right of slot 1 was
\* slot 3 and not the merged slot next to it.
C14_Witness ==
    /\ pc = "bpeDone"
    /\ Len(token) = 4
    /\ merged = {1, 2}
    /\ pairs[1] = <<symbolsOf(token)[1], pairs[2][1] \o pairs[2][2]>>
    /\ pairs[3] = <<SubSeq(token, 1, 3), symbolsOf(token)[4]>>
    /\ result = <<SubSeq(token, 1, 3), symbolsOf(token)[4]>>

\* The slots of a call of bpe that are not merged and whose pair has a rule.
ruleSlots == {k \in (1..Len(pairs)) \ merged : pairs[k] \in DOMAIN m_bpeRanks}

\* Those of them whose rank is the lowest.
lowestSlots ==
    {k \in ruleSlots : \A j \in ruleSlots : m_bpeRanks[pairs[k]] <= m_bpeRanks[pairs[j]]}

\* C15 as stated: at every selection step no two slots share the lowest rank;
\* the slot merged is the one of lowest rank; the loop stops exactly when no
\* unmerged slot has a rule.
C15_NoTies ==
    pc = "bpe"
        => /\ Cardinality(lowestSlots) <= 1
           /\ toMergeOf(pairs, merged) # 0 => toMergeOf(pairs, merged) \in lowestSlots
           /\ toMergeOf(pairs, merged) = 0 <=> ruleSlots = {}

\* C15 amended: every pass of the merge loop merges the leftmost of the
\* unmerged slots that share the lowest rank (several may: the same pair can
\* stand in more than one slot), never a slot whose pair has no rule, and the
\* loop is left, with no further merge, exactly when no unmerged slot has a
\* rule.
C15_LeftmostOfLowest ==
    [][pc = "bpe"
          => IF ruleSlots # {}
             THEN /\ pc' = "bpe"
                  /\ merged' = merged \cup {Min(lowestSlots)}
                  /\ Min(lowestSlots) \notin merged
             ELSE /\ pc' = "bpeDone"
                  /\ merged' = merged]_vars

\* C15 witness: for the token ttt and a table with the rule (t, t), both
\* slots had the lowest rank at the first selection, and the first pass has
\* merged slot 1.
C15_Witness ==
    /\ pc = "bpe"
    /\ token = <<116, 116, 116>>
    /\ <<<<116>>, <<116>>>> \in DOMAIN m_bpeRanks
    /\ merged = {1}
    /\ pairs = <<<<<<116>>, <<116>>>>, <<<<116, 116>>, <<116>>>>>>

====
